---- MODULE Spec2Model ----
(***************************************************************************)
(* A model of the Hex board of rust-hex-game (src/board.rs, src/coord.rs). *)
(* The board keeps two occupancy sets, two union-find forests over the     *)
(* padded (size+2) x (size+2) index space and a cached game status.        *)
(* A Game (src/game.rs) adds the list of moves made; the functions of      *)
(* coord.rs are applied to an argument `arg` and leave their result in     *)
(* `out`.                                                                  *)
(***************************************************************************)
EXTENDS Integers, Sequences, FiniteSets, TLC

(* Bounds of the exploration. *)
MaxSize == 3
MaxStones == 3
DeepSize == 3
DeepStones == 6

\* Board::new(5) in tests::test_game_status
ScenarioSize == 5

\* the largest value of a coordinate: `x > 25 || y > 25` in Coord::new
MaxCoord == 25

VARIABLES size, black, white, black_unions, white_unions, status, ret,
          moves, arg, out

vars == <<size, black, white, black_unions, white_unions, status, ret,
          moves, arg, out>>
boardVars == <<size, black, white, black_unions, white_unions, status>>

Color == {"Black", "White"}

(***************************************************************************)
(* petgraph's UnionFind<u16>, as the partition it represents: every        *)
(* element maps to the least element of its set.                           *)
(***************************************************************************)
UnionFindNew(n) == [i \in 0..(n - 1) |-> i]

find(uf, x) == uf[x]

\* a union that re-labels the element b alone instead of merging the sets
union_single(uf, a, b) == [uf EXCEPT ![b] = uf[a]]

union(uf, a, b) ==
    LET ra == uf[a]
        rb == uf[b]
        r  == IF ra < rb THEN ra ELSE rb
    IN  [i \in DOMAIN uf |-> IF uf[i] = ra \/ uf[i] = rb THEN r ELSE uf[i]]

(***************************************************************************)
(* coord.rs                                                                *)
(***************************************************************************)
Coord(x, y) == [x |-> x, y |-> y]

\* the difference cut off at 0 when the first number is the smaller
abs_sub_saturating(int1, int2) == IF int1 >= int2 THEN int1 - int2 ELSE 0

abs_sub(int1, int2) == IF int1 >= int2 THEN int1 - int2 ELSE int2 - int1

is_neighbor(a, b) ==
    /\ abs_sub(a.x, b.x) <= 1
    /\ abs_sub(a.y, b.y) <= 1
    /\ abs_sub((a.x + a.y) % 256, (b.x + b.y) % 256) <= 1

(***************************************************************************)
(* Board::new                                                              *)
(***************************************************************************)
\* the right edge united with the left edge's node of the row
RECURSIVE new_black_loop_crossed(_, _, _)
new_black_loop_crossed(uf, y, n) ==
    IF y > n THEN uf
    ELSE new_black_loop_crossed(
             union(union(uf, y * (n + 2), (y - 1) * (n + 2)),
                   (y + 1) * (n + 2) - 1, y * (n + 2)),
             y + 1, n)

RECURSIVE new_black_loop(_, _, _)
new_black_loop(uf, y, n) ==
    IF y > n THEN uf
    ELSE new_black_loop(
             union(union(uf, y * (n + 2), (y - 1) * (n + 2)),
                   (y + 1) * (n + 2) - 1, y * (n + 2) - 1),
             y + 1, n)

RECURSIVE new_white_loop(_, _, _)
new_white_loop(uf, x, n) ==
    IF x > n THEN uf
    ELSE new_white_loop(
             union(union(uf, x, x - 1),
                   (n - 1) * n + x, (n - 1) * n + x - 1),
             x + 1, n)

new_black_unions(n) == new_black_loop(UnionFindNew((n + 2) * (n + 2)), 1, n)

new_white_unions(n) == new_white_loop(UnionFindNew((n + 2) * (n + 2)), 1, n)

(***************************************************************************)
(* Index mapping                                                           *)
(***************************************************************************)
\* the index taken over a grid padded on one side only
coord_to_num_half_padded(n, coord) == (coord.y + 1) * (n + 1) + coord.x + 1

coord_to_num(n, coord) == (coord.y + 1) * (n + 2) + coord.x + 1

\* the inverse taken over the unpadded width
num_to_coord_unpadded(n, num) ==
    [y |-> (((num \div n) % 256) + 255) % 256,
     x |-> (((num % n) % 256) + 255) % 256]

\* `as u8 - 1`: the subtraction is on a u8
num_to_coord(n, num) ==
    [y |-> (((num \div (n + 2)) % 256) + 255) % 256,
     x |-> (((num % (n + 2)) % 256) + 255) % 256]

piece(b, w, coord) ==
    IF coord \in b THEN "Black"
    ELSE IF coord \in w THEN "White"
    ELSE "Empty"

piece_at_num(n, b, w, num) ==
    IF num % (n + 2) = 0 \/ (num + 1) % (n + 2) = 0 THEN "Black"
    ELSE IF num <= n + 1 \/ num > (n + 1) * n THEN "White"
    ELSE piece(b, w, num_to_coord(n, num))

\* the else arm without the test of the top border row
decodes_below_only(n, num) ==
    /\ ~(num % (n + 2) = 0 \/ (num + 1) % (n + 2) = 0)
    /\ ~(num > (n + 1) * n)

\* piece_at_num reaches its else arm, the one that calls num_to_coord
decodes(n, num) ==
    /\ ~(num % (n + 2) = 0 \/ (num + 1) % (n + 2) = 0)
    /\ ~(num <= n + 1 \/ num > (n + 1) * n)

\* the neighbours of a square grid: the bottom-left offset taken as size+1
num_neighbors_square(n, num) ==
    LET sz == n + 2
    IN  << num - sz, num - sz + 1, num + 1, num + sz, num + sz + 1, num - 1 >>

num_neighbors(n, num) ==
    LET sz == n + 2
    IN  << num - sz, num - sz + 1, num + 1, num + sz, num + sz - 1, num - 1 >>

(***************************************************************************)
(* Board::set_game_status                                                  *)
(***************************************************************************)
\* Black's test made against the left border node next to the corner cell
set_game_status_left(n, bu, wu) ==
    IF find(bu, n + 3) = find(bu, n + 2) THEN "BlackWin"
    ELSE IF find(wu, 1) = find(wu, (n + 2) * (n + 1) + 1) THEN "WhiteWin"
    ELSE "Ongoing"

set_game_status(n, bu, wu) ==
    IF find(bu, n + 3) = find(bu, (n + 2) * 2 - 1) THEN "BlackWin"
    ELSE IF find(wu, 1) = find(wu, (n + 2) * (n + 1) + 1) THEN "WhiteWin"
    ELSE "Ongoing"

(***************************************************************************)
(* Board::place_piece                                                      *)
(***************************************************************************)
\* the bounds test made on the row only
out_of_bounds_row_only(coord) == coord.y >= size

\* `coord.x as u16 >= self.size || coord.y as u16 >= self.size`
out_of_bounds(coord) == coord.x >= size \/ coord.y >= size

\* the occupancy test made against Black's stones only
occupied_black_only(coord) == coord \in black

\* `self.piece(coord) != HexCell::Empty`
occupied(coord) == piece(black, white, coord) # "Empty"

\* the stone inserted into both occupancy sets
inserted_both(stones, owner, coord, color) == stones \cup {coord}

\* `self.black.insert(coord)` / `self.white.insert(coord)` in the arm of the
\* mover's colour: the occupancy set of colour `owner` after the move
inserted(stones, owner, coord, color) ==
    IF color = owner THEN stones \cup {coord} ELSE stones

\* the loop `for neighbor in self.num_neighbors(num)` of one colour
RECURSIVE union_neighbors(_, _, _, _, _, _, _, _)
union_neighbors(uf, n, b, w, num, nbrs, i, color) ==
    IF i > Len(nbrs) THEN uf
    ELSE union_neighbors(
             IF piece_at_num(n, b, w, nbrs[i]) = color
                 THEN union(uf, num, nbrs[i]) ELSE uf,
             n, b, w, num, nbrs, i + 1, color)

\* both arms run their loop on every move
unions_after_both(uf, owner, b, w, num, color) ==
    union_neighbors(uf, size, b, w, num, num_neighbors(size, num), 1, owner)

\* the forest of colour `owner` after a move of `color`: only the arm of the
\* mover's colour runs the loop
unions_after(uf, owner, b, w, num, color) ==
    IF color = owner
    THEN union_neighbors(uf, size, b, w, num, num_neighbors(size, num), 1, owner)
    ELSE uf

\* the call returns false: no field of the board is written
rejected ==
    [ret |-> FALSE, black |-> black, white |-> white,
     black_unions |-> black_unions, white_unions |-> white_unions,
     status |-> status]

\* the call returns true: the fields written by the match arm, and the
\* status that set_game_status computes from the forests
accepted(b2, w2, bu2, wu2) ==
    [ret |-> TRUE, black |-> b2, white |-> w2,
     black_unions |-> bu2, white_unions |-> wu2,
     status |-> set_game_status(size, bu2, wu2)]

\* the value returned and the fields of the board after the call
place_piece(coord, color) ==
    IF out_of_bounds(coord) THEN rejected
    ELSE IF occupied(coord) THEN rejected
    ELSE LET num == coord_to_num(size, coord)
             b2  == inserted(black, "Black", coord, color)
             w2  == inserted(white, "White", coord, color)
         IN  accepted(b2, w2,
                      unions_after(black_unions, "Black", b2, w2, num, color),
                      unions_after(white_unions, "White", b2, w2, num, color))

\* arguments a caller may pass: the cells of the board and three positions
\* beyond it (x too large, y too large, both too large)
Args ==
    [x : 0..(size - 1), y : 0..(size - 1)]
        \cup {Coord(size, 0), Coord(0, size), Coord(size, size)}

InBounds(coord) == coord.x < size /\ coord.y < size

Stones == black \cup white

\* the board takes the fields of the result r of a call
Returns(r) ==
    /\ ret' = r.ret
    /\ black' = r.black
    /\ white' = r.white
    /\ black_unions' = r.black_unions
    /\ white_unions' = r.white_unions
    /\ status' = r.status
    /\ UNCHANGED size

\* one call of place_piece on a board
Call(coord, color) ==
    /\ Returns(place_piece(coord, color))
    /\ UNCHANGED <<moves, arg, out>>

\* Board::new(n), before any call
New(n) ==
    /\ size = n
    /\ black = {}
    /\ white = {}
    /\ black_unions = new_black_unions(n)
    /\ white_unions = new_white_unions(n)
    /\ status = "Ongoing"
    /\ ret = TRUE

\* no function has been applied
Idle == [op |-> "none"]

\* a board used on its own: no Game around it, no function of coord.rs applied
BoardOnly ==
    /\ moves = <<>>
    /\ arg = <<>>
    /\ out = Idle

(***************************************************************************)
(* Spec: any calls on a board of size 1..MaxSize, at most MaxStones stones *)
(***************************************************************************)
\* a call that adds a stone is made while the board holds fewer than MaxStones
Admitted(coord) ==
    (InBounds(coord) /\ coord \notin Stones) => Cardinality(Stones) < MaxStones

Place(coord, color) ==
    /\ Admitted(coord)
    /\ Call(coord, color)

Init == \E n \in 1..MaxSize : New(n) /\ BoardOnly

Next == \E coord \in Args, color \in Color : Place(coord, color)

Spec == Init /\ [][Next]_vars

(***************************************************************************)
(* SpecDeep: any calls on one board of size DeepSize, up to DeepStones     *)
(* stones.                                                                 *)
(***************************************************************************)
PlaceDeep(coord, color) ==
    /\ (InBounds(coord) /\ coord \notin Stones) => Cardinality(Stones) < DeepStones
    /\ Call(coord, color)

InitDeep == New(DeepSize) /\ BoardOnly

NextDeep == \E coord \in Args, color \in Color : PlaceDeep(coord, color)

SpecDeep == InitDeep /\ [][NextDeep]_vars

(***************************************************************************)
(* SpecScenario: the game of tests::test_game_status on a 5x5 board.       *)
(* Black's stones are placed in the order of the test; White's stones are  *)
(* placed, in any order, between Black's first and sixth move.             *)
(***************************************************************************)
ScenarioBlack ==
    << Coord(0, 0), Coord(0, 1), Coord(1, 1), Coord(1, 2),
       Coord(2, 2), Coord(3, 1), Coord(4, 0) >>

ScenarioWhite ==
    { Coord(0, 2), Coord(2, 4), Coord(4, 1), Coord(3, 0), Coord(4, 3) }

ScenarioBlackMove ==
    LET k == Cardinality(black)
    IN  /\ k < Len(ScenarioBlack)
        /\ k >= Len(ScenarioBlack) - 2 => ScenarioWhite \subseteq white
        /\ Call(ScenarioBlack[k + 1], "Black")

ScenarioWhiteMove ==
    /\ Cardinality(black) >= 1
    /\ Cardinality(black) <= Len(ScenarioBlack) - 2
    /\ \E coord \in ScenarioWhite \ white : Call(coord, "White")

InitScenario == New(ScenarioSize) /\ BoardOnly

NextScenario == ScenarioBlackMove \/ ScenarioWhiteMove

SpecScenario == InitScenario /\ [][NextScenario]_vars

(***************************************************************************)
(* SpecNew: a board of any size 1..26 right after Board::new, and the      *)
(* index mapping applied to one of its cells.                              *)
(***************************************************************************)
Cells(n) == [x : 0..(n - 1), y : 0..(n - 1)]

InitNew ==
    \E n \in 1..(MaxCoord + 1) :
        /\ New(n)
        /\ moves = <<>>
        /\ arg \in Cells(n)
        /\ out = Idle

\* self.num_to_coord(self.coord_to_num(arg))
ConvertIndex ==
    /\ out = Idle
    /\ out' = [op  |-> "num_to_coord",
               num |-> coord_to_num(size, arg),
               val |-> num_to_coord(size, coord_to_num(size, arg))]
    /\ UNCHANGED <<size, black, white, black_unions, white_unions, status,
                   ret, moves, arg>>

\* the loop of place_piece over num_neighbors(coord_to_num(arg)): the
\* neighbours it reads, and the positions in the list of those that
\* piece_at_num hands to num_to_coord
ReadNeighbors ==
    /\ out = Idle
    /\ out' = [op   |-> "piece_at_num",
               num  |-> coord_to_num(size, arg),
               nbrs |-> num_neighbors(size, coord_to_num(size, arg)),
               decoded |-> {i \in 1..6 :
                   decodes(size, num_neighbors(size, coord_to_num(size, arg))[i])}]
    /\ UNCHANGED <<size, black, white, black_unions, white_unions, status,
                   ret, moves, arg>>

NextNew == ConvertIndex \/ ReadNeighbors

SpecNew == InitNew /\ [][NextNew]_vars

(***************************************************************************)
(* coord.rs: neighbours and distance                                       *)
(***************************************************************************)
\* the top-edge branch listed from the left neighbour on
neighbors_left_first(p) ==
    IF p = Coord(0, 0) THEN <<Coord(1, 0), Coord(0, 1)>>
    ELSE IF p.x = 0 THEN
        <<Coord(0, p.y - 1), Coord(1, p.y - 1), Coord(1, p.y), Coord(0, p.y + 1)>>
    ELSE IF p.y = 0 THEN
        <<Coord(p.x - 1, 0), Coord(p.x + 1, 0), Coord(p.x, 1), Coord(p.x - 1, 1)>>
    ELSE
        <<Coord(p.x, p.y - 1), Coord(p.x + 1, p.y - 1), Coord(p.x + 1, p.y),
          Coord(p.x, p.y + 1), Coord(p.x - 1, p.y + 1), Coord(p.x - 1, p.y)>>

neighbors(p) ==
    IF p = Coord(0, 0) THEN <<Coord(1, 0), Coord(0, 1)>>
    ELSE IF p.x = 0 THEN
        <<Coord(0, p.y - 1), Coord(1, p.y - 1), Coord(1, p.y), Coord(0, p.y + 1)>>
    ELSE IF p.y = 0 THEN
        <<Coord(p.x + 1, 0), Coord(p.x, 1), Coord(p.x - 1, 1), Coord(p.x - 1, 0)>>
    ELSE
        <<Coord(p.x, p.y - 1), Coord(p.x + 1, p.y - 1), Coord(p.x + 1, p.y),
          Coord(p.x, p.y + 1), Coord(p.x - 1, p.y + 1), Coord(p.x - 1, p.y)>>

\* the sum of the three axis differences, not halved
distance_undivided(a, b) ==
    (abs_sub(a.x, b.x) + abs_sub(a.y, b.y)
         + abs_sub((a.x + a.y) % 256, (b.x + b.y) % 256)) % 256

distance(a, b) ==
    ((abs_sub(a.x, b.x) + abs_sub(a.y, b.y)
          + abs_sub((a.x + a.y) % 256, (b.x + b.y) % 256)) % 256) \div 2

(***************************************************************************)
(* coord.rs: text form.  A text is a sequence of one-character strings.    *)
(***************************************************************************)
ALPHABET ==
    <<"a", "b", "c", "d", "e", "f", "g", "h", "j", "i", "k", "l", "m",
      "n", "o", "p", "q", "r", "s", "t", "u", "v", "w", "x", "y", "z">>

\* the ASCII letters and digits as str::to_lowercase and u8::from_str see them
Letters ==
    <<"a", "b", "c", "d", "e", "f", "g", "h", "i", "j", "k", "l", "m",
      "n", "o", "p", "q", "r", "s", "t", "u", "v", "w", "x", "y", "z">>

Capitals ==
    <<"A", "B", "C", "D", "E", "F", "G", "H", "I", "J", "K", "L", "M",
      "N", "O", "P", "Q", "R", "S", "T", "U", "V", "W", "X", "Y", "Z">>

Digits == <<"0", "1", "2", "3", "4", "5", "6", "7", "8", "9">>

Range(seq) == {seq[i] : i \in 1..Len(seq)}

\* str::find / chars().position: 0-based index of the first match
IndexOf(seq, c) ==
    (CHOOSE i \in 1..Len(seq) :
         seq[i] = c /\ \A j \in 1..(i - 1) : seq[j] # c) - 1

\* the `{}` formatting of an unsigned integer
RECURSIVE decimal(_)
decimal(n) ==
    IF n < 10 THEN <<Digits[n + 1]>>
    ELSE decimal(n \div 10) \o <<Digits[(n % 10) + 1]>>

\* the column letter taken in alphabetical order
to_string_alphabetical(p) == <<Letters[p.x + 1]>> \o decimal((p.y + 1) % 256)

\* Display for Coord
to_string(p) == <<ALPHABET[p.x + 1]>> \o decimal((p.y + 1) % 256)

to_lowercase_char(c) ==
    IF c \in Range(Capitals) THEN Letters[IndexOf(Capitals, c) + 1] ELSE c

to_lowercase(s) == [i \in 1..Len(s) |-> to_lowercase_char(s[i])]

to_uppercase_char(c) ==
    IF c \in Range(Letters) THEN Capitals[IndexOf(Letters, c) + 1] ELSE c

\* the value of a run of decimal digits
RECURSIVE DecValue(_)
DecValue(t) ==
    IF t = <<>> THEN 0
    ELSE DecValue(SubSeq(t, 1, Len(t) - 1)) * 10 + IndexOf(Digits, t[Len(t)])

Ok(v) == [ok |-> TRUE, val |-> v]
Err(e) == [ok |-> FALSE, err |-> e]

\* str::parse::<u8>: an optional leading plus sign, then decimal digits, at
\* most 255
parse_u8(t) ==
    LET digits == IF t # <<>> /\ t[1] = "+" THEN Tail(t) ELSE t
    IN  IF digits = <<>> THEN Err("InvalidInt")
        ELSE IF \E i \in 1..Len(digits) : digits[i] \notin Range(Digits)
        THEN Err("InvalidInt")
        ELSE IF DecValue(digits) > 255 THEN Err("InvalidInt")
        ELSE Ok(DecValue(digits))

\* Coord::new
CoordNew(x, y) == IF x > MaxCoord \/ y > MaxCoord THEN Err("None") ELSE Ok(Coord(x, y))

\* `Coord::new(x, y - 1)` on a parsed y: the subtraction is on a u8, which
\* panics on y = 0 when the build checks overflow and wraps otherwise
from_parsed(x, y, checks) ==
    IF y = 0 /\ checks THEN Err("panic")
    ELSE IF CoordNew(x, (y + 255) % 256).ok
         THEN Ok(CoordNew(x, (y + 255) % 256).val)
         ELSE Err("InvalidFormat")

\* the text is parsed as written, without lowering its case
from_str_cased(s, checks) ==
    IF Len(s) < 2 THEN Err("InvalidFormat")
    ELSE IF s[1] \notin Range(ALPHABET) THEN Err("InvalidFormat")
    ELSE IF ~parse_u8(Tail(s)).ok THEN parse_u8(Tail(s))
    ELSE from_parsed(IndexOf(ALPHABET, s[1]), parse_u8(Tail(s)).val, checks)

\* FromStr for Coord; checks: the build checks integer overflow
from_str(s, checks) ==
    IF Len(to_lowercase(s)) < 2 THEN Err("InvalidFormat")
    ELSE IF to_lowercase(s)[1] \notin Range(ALPHABET) THEN Err("InvalidFormat")
    ELSE IF ~parse_u8(Tail(to_lowercase(s))).ok THEN parse_u8(Tail(to_lowercase(s)))
    ELSE from_parsed(IndexOf(ALPHABET, to_lowercase(s)[1]),
                     parse_u8(Tail(to_lowercase(s))).val, checks)

(***************************************************************************)
(* SpecCoord: the functions of coord.rs applied to one position 0..25.     *)
(***************************************************************************)
Coords == [x : 0..MaxCoord, y : 0..MaxCoord]

InitCoord ==
    /\ New(1)
    /\ moves = <<>>
    /\ arg \in Coords
    /\ out = Idle

Applied(r) ==
    /\ out = Idle
    /\ out' = r
    /\ UNCHANGED <<size, black, white, black_unions, white_unions, status,
                   ret, moves, arg>>

ApplyNeighbors == Applied([op |-> "neighbors", val |-> neighbors(arg)])

ApplyDistance ==
    \E other \in Coords :
        Applied([op |-> "distance", other |-> other,
                 val |-> distance(arg, other),
                 near |-> is_neighbor(arg, other)])

ApplyToString == Applied([op |-> "to_string", val |-> to_string(arg)])

\* the text of the position, as written or with its column letter in upper
\* case, parsed back
ApplyRoundTrip ==
    \E upper, checks \in BOOLEAN :
        LET text == IF upper
                    THEN <<to_uppercase_char(to_string(arg)[1])>>
                             \o Tail(to_string(arg))
                    ELSE to_string(arg)
        IN  Applied([op |-> "from_str", text |-> text,
                     val |-> from_str(text, checks)])

\* the positions 0..25 one step of neighbors() away from a position of
\* frontier and not in seen
NextLayer(frontier, seen) ==
    ((UNION {Range(neighbors(c)) : c \in frontier}) \cap Coords) \ seen

\* the positions reached from frontier by walking along neighbors(), as the
\* sequence of layers: frontier, then the positions one step further, ...
RECURSIVE Layers(_, _)
RECURSIVE GrowLayers(_, _)
Layers(frontier, seen) ==
    IF frontier = {} THEN <<>>
    ELSE <<frontier>> \o GrowLayers(NextLayer(frontier, seen), seen)

GrowLayers(next, seen) == Layers(next, seen \cup next)

\* every position sorted by the least number of neighbors() steps from arg
ApplyWalk == Applied([op |-> "walk", val |-> Layers({arg}, {arg})])

NextCoord ==
    \/ ApplyNeighbors
    \/ ApplyDistance
    \/ ApplyToString
    \/ ApplyRoundTrip
    \/ ApplyWalk

SpecCoord == InitCoord /\ [][NextCoord]_vars

(***************************************************************************)
(* SpecParse: FromStr applied to short ASCII texts.                        *)
(***************************************************************************)
MaxText == 4

\* a column letter in each case, a character that is neither letter nor
\* digit, the sign u8::from_str accepts, and digits enough to write 0, 26,
\* 27, 255 and 256
TextChars == {"a", "J", "?", "+", "0", "2", "5", "6", "7"}

Texts == UNION {[1..k -> TextChars] : k \in 0..MaxText}

InitParse ==
    /\ New(1)
    /\ moves = <<>>
    /\ arg \in Texts
    /\ out = Idle

ApplyFromStr ==
    \E checks \in BOOLEAN :
        Applied([op |-> "from_str", text |-> arg, checks |-> checks,
                 val |-> from_str(arg, checks)])

NextParse == ApplyFromStr

SpecParse == InitParse /\ [][NextParse]_vars

(***************************************************************************)
(* SpecGame: a Game, its board driven through make_move only.              *)
(***************************************************************************)
MaxMoves == 3

\* Black whatever the number of moves made
next_move_color_black == "Black"

next_move_color == IF Len(moves) % 2 = 0 THEN "Black" ELSE "White"

\* r: the outcome of board.place_piece(coord, next_move_color())
make_move_returns(r, coord) ==
    /\ Returns(r)
    /\ moves' = IF r.ret THEN Append(moves, coord) ELSE moves
    /\ UNCHANGED <<arg, out>>

make_move(coord) == make_move_returns(place_piece(coord, next_move_color), coord)

\* a move that the board would accept is made only while fewer than MaxMoves
\* moves were made
AdmittedMove(coord) ==
    (InBounds(coord) /\ coord \notin Stones) => Len(moves) < MaxMoves

Move(coord) ==
    /\ AdmittedMove(coord)
    /\ make_move(coord)

\* Game::new(n)
InitGame == \E n \in 1..MaxSize : New(n) /\ BoardOnly

NextGame == \E coord \in Args : Move(coord)

SpecGame == InitGame /\ [][NextGame]_vars

(***************************************************************************)
(* SpecRender: a Game of any size 1..26, its first moves, and the cell     *)
(* index Display for Game computes for a recorded move.                    *)
(***************************************************************************)
MaxRendered == 1

\* `coord.y * self.board_size + coord.x` on u8 operands: an overflow of the
\* product or of the sum panics when the build checks overflow and wraps
\* otherwise
display_index(n, coord, checks) ==
    IF checks /\ (coord.y * n > 255 \/ coord.y * n + coord.x > 255)
    THEN Err("panic")
    ELSE Ok((((coord.y * n) % 256) + coord.x) % 256)

InitRender == \E n \in 1..(MaxCoord + 1) : New(n) /\ BoardOnly

RecordMove ==
    \E coord \in Cells(size) :
        /\ out = Idle
        /\ Len(moves) < MaxRendered
        /\ make_move(coord)

\* the loop `for coord in &self.moves` of fmt, at the i-th move
RenderMove ==
    \E i \in 1..Len(moves), checks \in BOOLEAN :
        Applied([op |-> "fmt", i |-> i, checks |-> checks,
                 val |-> display_index(size, moves[i], checks)])

NextRender == RecordMove \/ RenderMove

SpecRender == InitRender /\ [][NextRender]_vars

(***************************************************************************)
(* Chains of stones on the real board, by the adjacency of coord.rs.       *)
(***************************************************************************)
Adjacent(a, b) == a # b /\ is_neighbor(a, b)

RECURSIVE Connected(_, _)
Connected(S, stones) ==
    LET T == S \cup {c \in stones : \E d \in S : Adjacent(c, d)}
    IN  IF T = S THEN S ELSE Connected(T, stones)

\* Black has a chain of adjacent stones from column 0 to column size-1
BlackChain ==
    \E c \in Connected({d \in black : d.x = 0}, black) : c.x = size - 1

\* White has a chain of adjacent stones from row 0 to row size-1
WhiteChain ==
    \E c \in Connected({d \in white : d.y = 0}, white) : c.y = size - 1

\* C1: whenever Black's stones hold a chain from column 0 to column size-1,
\* the status is BlackWin.
C1_BlackChainWins == BlackChain => status = "BlackWin"

\* C2: whenever White's stones hold a chain from row 0 to row size-1, the
\* status is WhiteWin.
C2_WhiteChainWins == WhiteChain => status = "WhiteWin"

\* C3: the status is WhiteWin only if White's stones hold a chain of
\* adjacent stones from row 0 to row size-1.
C3_WhiteWinHasChain == status = "WhiteWin" => WhiteChain

\* C4: the status is BlackWin only if Black's stones hold a chain of
\* adjacent stones from column 0 to column size-1.
C4_BlackWinHasChain == status = "BlackWin" => BlackChain

C4_Witness == status = "BlackWin" /\ size >= 2 /\ white # {}

\* C6: once the status is a win it never becomes Ongoing again.
C6_WinNeverOngoing == [][status # "Ongoing" => status' # "Ongoing"]_vars

\* C7: the win states are terminal: BlackWin stays BlackWin and WhiteWin
\* stays WhiteWin under every later place call.
C7_WinTerminal ==
    [][/\ status = "BlackWin" => status' = "BlackWin"
       /\ status = "WhiteWin" => status' = "WhiteWin"]_vars

C6_Witness == status # "Ongoing" /\ ret = FALSE /\ Cardinality(Stones) >= 3

\* the result r of a call is false and holds the board as it is
NothingChanged(r) ==
    /\ r.ret = FALSE
    /\ r.black = black
    /\ r.white = white
    /\ r.black_unions = black_unions
    /\ r.white_unions = white_unions
    /\ r.status = status

\* C5: a place call on a position outside the board or on an occupied
\* position returns false and leaves both occupancy sets, both forests and
\* the status as they were.
C5_RejectedCallChangesNothing ==
    \A coord \in Args, color \in Color :
        (~InBounds(coord) \/ coord \in black \/ coord \in white) =>
            NothingChanged(place_piece(coord, color))

C5_Witness == ret = FALSE /\ black # {} /\ white # {}

\* C8: no position is in both the Black and the White occupancy set.
C8_SetsDisjoint == black \cap white = {}

C8_Witness == black # {} /\ white # {} /\ Cardinality(Stones) = MaxStones

\* the result r of a call is true, coord holds the mover's colour, no other
\* position changes and the opponent's set and forest are as they were
OnlyMoverChanged(r, coord, color) ==
    /\ r.ret = TRUE
    /\ piece(r.black, r.white, coord) = color
    /\ \A q \in Args \ {coord} :
           piece(r.black, r.white, q) = piece(black, white, q)
    /\ color = "Black" => r.white = white /\ r.white_unions = white_unions
    /\ color = "White" => r.black = black /\ r.black_unions = black_unions

\* C9: a place call on an empty position of the board returns true, makes
\* the position hold the mover's colour, changes no other position and
\* leaves the opponent's occupancy set and forest as they were (for every
\* call the specification admits in the state).
C9_AcceptedCallFrame ==
    \A coord \in Args, color \in Color :
        (/\ Admitted(coord)
         /\ InBounds(coord) /\ coord \notin black /\ coord \notin white) =>
            OnlyMoverChanged(place_piece(coord, color), coord, color)

C9_Witness ==
    /\ ret = TRUE
    /\ black # {}
    /\ white # {}
    /\ \E coord \in Args :
           Admitted(coord) /\ InBounds(coord) /\ coord \notin Stones

\* C10: in the game of test_game_status every placement is accepted, the
\* status is Ongoing as long as Black's last stone e1 is not placed and
\* BlackWin once it is.
C10_ScenarioStatus ==
    /\ ret = TRUE
    /\ ScenarioBlack[7] \notin black => status = "Ongoing"
    /\ ScenarioBlack[7] \in black => status = "BlackWin"

C10_Witness ==
    /\ ScenarioBlack[7] \in black
    /\ ScenarioWhite \subseteq white
    /\ status = "BlackWin"

\* C11: piece reads Empty at every position outside the board (no stone is
\* ever recorded there) and at every position that is in neither occupancy
\* set.
C11_OutsideIsEmpty ==
    /\ \A coord \in black \cup white : coord.x < size /\ coord.y < size
    /\ \A coord \in Args :
           /\ ~InBounds(coord) => piece(black, white, coord) = "Empty"
           /\ (coord \notin black /\ coord \notin white) =>
                  piece(black, white, coord) = "Empty"

C11_Witness == ret = FALSE /\ Cardinality(Stones) = MaxStones

\* the virtual border nodes of the padded grid, next to the real cells
TopBorder == {x : x \in 1..size}
BottomBorder == {(size + 1) * (size + 2) + x : x \in 1..size}
LeftBorder == {y * (size + 2) : y \in 1..size}
RightBorder == {y * (size + 2) + size + 1 : y \in 1..size}

\* the nodes of S are in one set of the forest uf
OneSet(uf, S) == \A a, b \in S : find(uf, a) = find(uf, b)

\* no node of S is in a set with a node of T
Apart(uf, S, T) == \A a \in S, b \in T : find(uf, a) # find(uf, b)

\* C12: right after new, in White's forest the top border nodes are in one
\* set, the bottom border nodes are in one set, and the two sets differ.
C12_WhiteBordersUnited ==
    (black = {} /\ white = {}) =>
        /\ OneSet(white_unions, TopBorder)
        /\ OneSet(white_unions, BottomBorder)
        /\ Apart(white_unions, TopBorder, BottomBorder)

\* C13: right after new, in Black's forest the left border nodes are in one
\* set, the right border nodes are in one set, and the two sets differ.
C13_BlackBordersUnited ==
    (black = {} /\ white = {}) =>
        /\ OneSet(black_unions, LeftBorder)
        /\ OneSet(black_unions, RightBorder)
        /\ Apart(black_unions, LeftBorder, RightBorder)

C13_Witness == black = {} /\ white = {} /\ size = MaxCoord + 1

\* C14: on a board of any size 1..26, num_to_coord gives back every cell
\* (x,y) of the board from its index (y+1)*(size+2) + (x+1).
C14_IndexRoundTrip ==
    out.op = "num_to_coord" =>
        /\ out.num = (arg.y + 1) * (size + 2) + (arg.x + 1)
        /\ out.val = arg

C14_Witness ==
    /\ out.op = "num_to_coord"
    /\ size = MaxCoord + 1
    /\ arg = Coord(MaxCoord, MaxCoord)

\* the six offsets of Coord::neighbors in its clockwise order
Offsets ==
    <<[dx |-> 0, dy |-> -1], [dx |-> 1, dy |-> -1], [dx |-> 1, dy |-> 0],
      [dx |-> 0, dy |-> 1], [dx |-> -1, dy |-> 1], [dx |-> -1, dy |-> 0]>>

\* the targets of the offsets that keep both coordinates non-negative, in order
RECURSIVE NonNegativeTargets(_, _)
NonNegativeTargets(p, i) ==
    IF i > Len(Offsets) THEN <<>>
    ELSE (IF p.x + Offsets[i].dx >= 0 /\ p.y + Offsets[i].dy >= 0
          THEN <<Coord(p.x + Offsets[i].dx, p.y + Offsets[i].dy)>>
          ELSE <<>>) \o NonNegativeTargets(p, i + 1)

\* C15: neighbors(p) lists, in the fixed clockwise order, exactly the offsets
\* whose target has non-negative coordinates: 2 at the origin, 4 when exactly
\* one coordinate is 0, 6 otherwise.
C15_NeighborsInOrder ==
    out.op = "neighbors" =>
        /\ out.val = NonNegativeTargets(arg, 1)
        /\ Len(out.val) = IF arg.x = 0 /\ arg.y = 0 THEN 2
                          ELSE IF arg.x = 0 \/ arg.y = 0 THEN 4
                          ELSE 6

C15_Witness == out.op = "neighbors" /\ arg.y = 0 /\ arg.x = MaxCoord

\* C16: distance(a,b) is 0 exactly when a = b, and 1 exactly when
\* is_neighbor(a,b) holds and a # b; is_neighbor(a,a) holds.
C16_DistanceZeroOne ==
    out.op = "distance" =>
        /\ (out.val = 0) <=> (arg = out.other)
        /\ (out.val = 1) <=> (out.near /\ arg # out.other)
        /\ (arg = out.other) => out.near

C16_Witness ==
    /\ out.op = "distance"
    /\ out.val = 1
    /\ arg = Coord(MaxCoord, MaxCoord - 1)
    /\ out.other = Coord(MaxCoord - 1, MaxCoord)

\* C17: parsing the text of a position gives the position back, also when
\* the column letter is written in upper case.
C17_TextRoundTrip ==
    out.op = "from_str" => out.val = Ok(arg)

C17_Witness ==
    /\ out.op = "from_str"
    /\ arg = Coord(8, MaxCoord)
    /\ out.text = <<"J", "2", "6">>

\* C18: the text of (x,y) is the (x+1)-th letter of a..z in alphabetical
\* order followed by the decimal number y+1.
C18_TextIsAlphabetical ==
    out.op = "to_string" => out.val = to_string_alphabetical(arg)

\* a column letter, in either case
IsColumnLetter(c) == c \in Range(Letters) \cup Range(Capitals)

\* the text t writes a decimal integer in 1..26
IsRowNumber(t) ==
    LET digits == IF t # <<>> /\ t[1] = "+" THEN Tail(t) ELSE t
    IN  /\ digits # <<>>
        /\ \A i \in 1..Len(digits) : digits[i] \in Range(Digits)
        /\ DecValue(digits) \in 1..(MaxCoord + 1)

\* C19: from_str fails with InvalidFormat on a text of fewer than 2
\* characters or whose first character is not a column letter, and with
\* InvalidInt, as a returned error, whenever the first character is a column
\* letter and the rest is not a decimal integer in 1..26.
C19_ParseErrors ==
    out.op = "from_str" =>
        /\ (Len(out.text) < 2 \/ ~IsColumnLetter(out.text[1]))
               => out.val = Err("InvalidFormat")
        /\ (Len(out.text) >= 2 /\ IsColumnLetter(out.text[1])
                /\ ~IsRowNumber(Tail(out.text)))
               => out.val = Err("InvalidInt")

\* the stone of the i-th entry of the move list is Black for odd i and White
\* for even i, and every stone of the board is an entry of the list
MovesAlternate ==
    /\ \A i \in 1..Len(moves) :
           piece(black, white, moves[i]) = IF i % 2 = 1 THEN "Black" ELSE "White"
    /\ Cardinality(Stones) = Len(moves)
    /\ Stones = Range(moves)

\* a make_move that returned false changed neither the move list, nor the
\* board, nor the colour to move; one that returned true added its stone
FailedMoveChangesNothing ==
    /\ ret' = FALSE =>
           /\ UNCHANGED <<moves, black, white, black_unions, white_unions, status>>
           /\ next_move_color' = next_move_color
    /\ ret' = TRUE => Len(moves') = Len(moves) + 1

\* C20: in a Game the i-th successful move placed a Black stone for odd i and
\* a White stone for even i, and a make_move returning false leaves the move
\* list, the board and the colour to move unchanged.
C20_MovesAlternate == [](MovesAlternate) /\ [][FailedMoveChangesNothing]_vars

C20_Witness == ret = FALSE /\ Len(moves) = MaxMoves /\ size = MaxSize

\* the column and row of a node in the padded grid
PaddedCol(num) == num % (size + 2)
PaddedRow(num) == num \div (size + 2)

\* the node of a real cell of the board
IsRealNode(num) ==
    PaddedCol(num) \in 1..size /\ PaddedRow(num) \in 1..size

\* a virtual border node of the colour
IsBorderOf(color, num) ==
    IF color = "Black" THEN PaddedCol(num) \in {0, size + 1}
    ELSE PaddedRow(num) \in {0, size + 1}

\* two nodes whose padded cells are hex-adjacent
PaddedAdjacent(m, k) ==
    Adjacent(Coord(PaddedCol(m), PaddedRow(m)), Coord(PaddedCol(k), PaddedRow(k)))

\* the nodes p's node may be merged with: adjacent border nodes of the colour
\* and adjacent real cells holding a stone of the colour
OwnNeighbours(num, color, b, w) ==
    {k \in 0..((size + 2) * (size + 2) - 1) :
        /\ PaddedAdjacent(num, k)
        /\ \/ IsBorderOf(color, k)
           \/ /\ IsRealNode(k)
              /\ piece(b, w, Coord(PaddedCol(k) - 1, PaddedRow(k) - 1)) = color}

\* every node that joined the set of num between the forests old and new was
\* in the set of one of the nodes of own
MergedOnlyWith(num, own, old, new) ==
    \A m \in DOMAIN old :
        (find(new, m) = find(new, num) /\ find(old, m) # find(old, num)) =>
            \E k \in own : find(old, m) = find(old, k)

\* the step placed a stone, and the mover's forest merged the stone's node
\* with its own neighbours only
MergesOwnNeighboursOnly ==
    Stones' # Stones =>
        \A p \in Stones' \ Stones :
            /\ p \in black' =>
                   MergedOnlyWith(coord_to_num(size, p),
                                  OwnNeighbours(coord_to_num(size, p), "Black",
                                                black', white'),
                                  black_unions, black_unions')
            /\ p \in white' =>
                   MergedOnlyWith(coord_to_num(size, p),
                                  OwnNeighbours(coord_to_num(size, p), "White",
                                                black', white'),
                                  white_unions, white_unions')

\* C21: a successful place(p, c) merges p's node, in c's forest, only with
\* nodes of hex-adjacent padded cells that hold a stone of colour c or are
\* border cells of c, never with an empty or opponent-occupied real cell.
C21_MergesOwnNeighboursOnly == [][MergesOwnNeighboursOnly]_vars

\* C22: any two hex-adjacent real cells holding stones of the same colour are
\* in the same set of that colour's forest.
C22_AdjacentStonesUnited ==
    /\ \A a, b \in black :
           Adjacent(a, b) =>
               find(black_unions, coord_to_num(size, a))
                   = find(black_unions, coord_to_num(size, b))
    /\ \A a, b \in white :
           Adjacent(a, b) =>
               find(white_unions, coord_to_num(size, a))
                   = find(white_unions, coord_to_num(size, b))

\* the node is the only one of its set in the forest
Alone(uf, num) == \A m \in DOMAIN uf \ {num} : find(uf, m) # find(uf, num)

\* C23: right after new, the node of every real cell is alone in its set in
\* Black's and in White's forest.
C23_RealCellsAlone ==
    (black = {} /\ white = {}) =>
        \A num \in DOMAIN black_unions :
            IsRealNode(num) =>
                Alone(black_unions, num) /\ Alone(white_unions, num)

\* C24: in a place call num_to_coord is applied only to indices of real cells,
\* where neither of its u8 subtractions underflows, and num_neighbors only to
\* an index from which size+2 can be subtracted.
C24_DecodesRealCellsOnly ==
    out.op = "piece_at_num" =>
        /\ out.num >= size + 2
        /\ \A i \in out.decoded :
               /\ IsRealNode(out.nbrs[i])
               /\ PaddedRow(out.nbrs[i]) % 256 >= 1
               /\ PaddedCol(out.nbrs[i]) % 256 >= 1
               /\ num_to_coord(size, out.nbrs[i])
                      = Coord(PaddedCol(out.nbrs[i]) - 1, PaddedRow(out.nbrs[i]) - 1)

C24_Witness ==
    /\ out.op = "piece_at_num"
    /\ size = MaxCoord + 1
    /\ arg = Coord(0, 0)
    /\ Cardinality(out.decoded) = 2

\* C25: for every board size and all real cells p, q, coord_to_num(q) is one
\* of the six values of num_neighbors(coord_to_num(p)) exactly when
\* distance(p, q) = 1, and the six values are indices of the padded grid.
C25_BoardAdjacencyIsCoordAdjacency ==
    out.op = "piece_at_num" =>
        /\ \A q \in Cells(size) :
               (coord_to_num(size, q) \in Range(out.nbrs))
                   <=> (distance(arg, q) = 1)
        /\ \A i \in 1..Len(out.nbrs) :
               out.nbrs[i] \in 0..((size + 2) * (size + 2) - 1)

C25_Witness ==
    /\ out.op = "piece_at_num"
    /\ size = MaxCoord + 1
    /\ arg = Coord(MaxCoord, 12)
    /\ Len(out.nbrs) = 6

\* (|dx| + |dy| + |dx+dy|) / 2 over the integers
HexDistance(a, b) ==
    LET dx == a.x - b.x
        dy == a.y - b.y
        Abs(v) == IF v < 0 THEN -v ELSE v
    IN  (Abs(dx) + Abs(dy) + Abs(dx + dy)) \div 2

\* C26: distance(a,b) is (|dx| + |dy| + |dx+dy|)/2 with no 8-bit overflow,
\* is the length of a shortest path from a to b along neighbors(), and is
\* symmetric.
C26_DistanceIsShortestPath ==
    out.op = "walk" =>
        /\ UNION {out.val[k] : k \in 1..Len(out.val)} = Coords
        /\ \A k \in 1..Len(out.val) :
               \A b \in out.val[k] :
                   /\ distance(arg, b) = k - 1
                   /\ distance(b, arg) = k - 1
                   /\ HexDistance(arg, b) = k - 1

C26_Witness ==
    /\ out.op = "walk"
    /\ arg = Coord(0, 0)
    /\ Len(out.val) = 2 * MaxCoord + 1

\* C27: the cell index y * board_size + x that the rendering of a Game
\* computes on u8 for a recorded move equals the row-major index over the
\* integers, for every board size 1..26.
C27_RenderIndexExact ==
    out.op = "fmt" =>
        out.val = Ok(moves[out.i].y * size + moves[out.i].x)

====
